---- MODULE Spec2Model ----
(***************************************************************************)
(* State machine of src/app.js: the App component of the offline PDF      *)
(* assistant.  The variables are the component's useState cells, the       *)
(* requests in flight, the auto-clear timer of the message effect and the  *)
(* wall clock read by Date.now().  Every event handler and every           *)
(* continuation after an await is one action; React re-renders between     *)
(* two events, so a handler always sees the state of the latest render.    *)
(* The upload modal is left out: its button is never disabled, so the     *)
(* drop zone and the file input can be reached from every state, and       *)
(* showUploadModal is read by the markup alone.                            *)
(***************************************************************************)
EXTENDS Integers, Sequences, FiniteSets, TLC

VARIABLES
    query,            \* useState('')   : text of the question textarea
    response,         \* useState('')   : the answer text
    loading,          \* useState(false): the busy flag
    metrics,          \* useState(null) : the metrics of the last answer
    pdfFile,          \* useState(null) : the active document
    recentPdfs,       \* useState([])   : the recent documents, newest first
    message,          \* useState({text:'', type:''})
    uploads,          \* POST /upload_pdf requests in flight, per file
    asks,             \* POST /ask_pdf requests in flight
    timers,           \* pending setTimeout calls: handle -> ms since scheduled
    effectTimer,      \* handle held by the cleanup of the message effect
    sinceMessage,     \* ms since the last setMessage, while a text is shown
    now,              \* the reading of Date.now()
    nFetch,           \* number of fetch calls issued so far
    ev                \* the handler or continuation that ran last

vars == <<query, response, loading, metrics, pdfFile, recentPdfs, message,
          uploads, asks, timers, effectTimer, sinceMessage, now, nFetch, ev>>

----------------------------------------------------------------------------
(* Bounds of the model *)

MaxFetch == 3
MaxClock == 1

----------------------------------------------------------------------------
(* JavaScript values *)

Null == [name |-> "", type |-> "null"]
Undef == <<"undefined">>
EmptyStr == <<>>

\* truthiness of a string-or-undefined value
Truthy(s) == s # EmptyStr /\ s # Undef

\* a || b on strings
OrElse(a, b) == IF Truthy(a) THEN a ELSE b

PdfType == "application/pdf"
MaxRecent == 5
NoTimer == 0
\* the delay of the setTimeout of the message effect, in ms
ClearDelay == 5000

Space == " "

RECURSIVE TrimStart(_)
TrimStart(s) ==
    IF s # <<>> /\ Head(s) = Space THEN TrimStart(Tail(s)) ELSE s

RECURSIVE TrimEnd(_)
TrimEnd(s) ==
    IF s # <<>> /\ s[Len(s)] = Space THEN TrimEnd(SubSeq(s, 1, Len(s) - 1)) ELSE s

\* a trim that strips nothing
TrimNothing(s) == s

\* String.prototype.trim
Trim(s) == TrimEnd(TrimStart(s))

----------------------------------------------------------------------------
(* Inputs *)

\* what the user can type: nothing, blanks, a question, a question in blanks
QueryTexts == {<<>>, <<Space>>, <<Space, "a", Space>>}

\* files the user can pick or drop; Null is an empty file list
PdfFiles == {[name |-> "c.pdf", type |-> PdfType],
             [name |-> "f.pdf", type |-> PdfType]}
OtherFiles == {[name |-> "notes.txt", type |-> "text/plain"]}
FileInputs == PdfFiles \cup OtherFiles \cup {Null}

\* the recent-list buttons the user clicks: the first and the fifth
SelectChoices == {1, MaxRecent}

ServerMessages == {Undef, <<"indexed">>}

\* what the backend can do with an upload: the fetch rejects, the body is
\* not JSON, or a JSON body arrives with a 2xx or another status
UploadResponses ==
    {[net |-> FALSE, ok |-> FALSE, json |-> FALSE, message |-> Undef,
      error |-> <<"Failed to fetch">>]}
    \cup {[net |-> TRUE, ok |-> b, json |-> FALSE, message |-> Undef,
           error |-> <<"Unexpected token < in JSON at position 0">>] : b \in BOOLEAN}
    \cup {[net |-> TRUE, ok |-> b, json |-> TRUE, message |-> m,
           error |-> EmptyStr] : b \in BOOLEAN, m \in ServerMessages}

NoMetrics == [latency |-> -1, llm_cpu |-> -1, llm_mem_mb |-> -1]
SomeMetrics == [latency |-> 1, llm_cpu |-> 40, llm_mem_mb |-> 512]
Answer == <<"It is about X">>

AskResponses ==
    {[net |-> FALSE, ok |-> FALSE, json |-> FALSE, message |-> Undef,
      error |-> <<"Failed to fetch">>, response |-> Undef, metrics |-> NoMetrics]}
    \cup {[net |-> TRUE, ok |-> b, json |-> FALSE, message |-> Undef,
           error |-> <<"Unexpected token < in JSON at position 0">>,
           response |-> Undef, metrics |-> NoMetrics] : b \in BOOLEAN}
    \cup {[net |-> TRUE, ok |-> FALSE, json |-> TRUE, message |-> m,
           error |-> EmptyStr, response |-> Undef, metrics |-> NoMetrics] :
           m \in ServerMessages}
    \cup {[net |-> TRUE, ok |-> TRUE, json |-> TRUE, message |-> Undef,
           error |-> EmptyStr, response |-> Answer, metrics |-> SomeMetrics]}

\* the recent list of a session in which a.pdf .. e.pdf were uploaded, one
\* after the other, before the clock reading 0
FullRecent ==
    <<[id |-> -1, name |-> "e.pdf"], [id |-> -2, name |-> "d.pdf"],
      [id |-> -3, name |-> "c.pdf"], [id |-> -4, name |-> "b.pdf"],
      [id |-> -5, name |-> "a.pdf"]>>

InitRecents == {<<>>, FullRecent}

----------------------------------------------------------------------------
(* Texts of the notifications *)

NoMessage == [text |-> EmptyStr, type |-> ""]
UploadingMsg(name) ==
    [text |-> <<"Uploading and processing \"", name, "\"...">>, type |-> "info"]
InvalidFileMsg == [text |-> <<"Please select a valid PDF file.">>, type |-> "error"]
UploadOkMsg(m) == [text |-> m, type |-> "success"]
UploadFailMsgGeneric(m) ==
    [text |-> <<"Error: ", "Failed to upload PDF.">>, type |-> "error"]
UploadFailMsg(m) ==
    [text |-> <<"Error: ">> \o OrElse(m, <<"Failed to upload PDF.">>), type |-> "error"]
NetworkErrorMsg(e) ==
    [text |-> <<"Network error: ">> \o e \o <<". Is the backend running?">>,
     type |-> "error"]
EmptyQueryMsg == [text |-> <<"Please enter a question.">>, type |-> "error"]
NoDocumentMsg == [text |-> <<"Please upload a PDF first.">>, type |-> "error"]
AskOkMsg == [text |-> <<"Response generated successfully!">>, type |-> "success"]
AskFailMsg(m) ==
    [text |-> <<"Error: ">> \o OrElse(m, <<"Failed to get response.">>), type |-> "error"]
CopiedMsg == [text |-> <<"Response copied to clipboard!">>, type |-> "success"]
CopyFailedMsg == [text |-> <<"Failed to copy text.">>, type |-> "error"]
LoadedMsg(name) ==
    [text |-> <<"Loaded \"", name, "\" from recent files.">>, type |-> "info"]

----------------------------------------------------------------------------
(* The message effect: its cleanup clears the timer of the previous        *)
(* message, then a message with a truthy text schedules a new one          *)

FreshTimer(ts) == CHOOSE i \in 1..(Cardinality(ts) + 1) : i \notin ts

NoTimers == [t \in {} |-> 0]
Pending == DOMAIN timers

\* clearTimeout(h) on the pending calls ts
ClearTimeout(ts, h) == [t \in (DOMAIN ts) \ {h} |-> ts[t]]

\* setTimeout(..., 5000) on the pending calls ts, returning the handle h
SetTimeout(ts, h) == [t \in (DOMAIN ts) \cup {h} |-> IF t = h THEN 0 ELSE ts[t]]

\* the effect without its cleanup
NotifyNoCleanup(m) ==
    /\ message' = m
    /\ sinceMessage' = 0
    /\ IF Truthy(m.text)
       THEN /\ effectTimer' = FreshTimer(DOMAIN timers)
            /\ timers' = SetTimeout(timers, FreshTimer(DOMAIN timers))
       ELSE /\ effectTimer' = NoTimer
            /\ timers' = timers

\* the effect without its test of message.text
NotifyAnyText(m) ==
    LET cleared == ClearTimeout(timers, effectTimer)
    IN  /\ message' = m
        /\ sinceMessage' = 0
        /\ effectTimer' = FreshTimer(DOMAIN cleared)
        /\ timers' = SetTimeout(cleared, FreshTimer(DOMAIN cleared))

Notify(m) ==
    LET cleared == ClearTimeout(timers, effectTimer)
    IN  /\ message' = m
        /\ sinceMessage' = 0
        /\ IF Truthy(m.text)
           THEN /\ effectTimer' = FreshTimer(DOMAIN cleared)
                /\ timers' = SetTimeout(cleared, FreshTimer(DOMAIN cleared))
           ELSE /\ effectTimer' = NoTimer
                /\ timers' = cleared

----------------------------------------------------------------------------
(* The recent list *)

\* the update without the filter on the name
RecordSuccessNoFilter(prev, name, t) ==
    LET all == <<[id |-> t, name |-> name]>> \o prev
    IN  SubSeq(all, 1, IF Len(all) < MaxRecent THEN Len(all) ELSE MaxRecent)

\* the update keeping the last five instead of the first five
RecordSuccessKeepsTail(prev, name, t) ==
    LET kept == SelectSeq(prev, LAMBDA p : p.name # name)
        all == <<[id |-> t, name |-> name]>> \o kept
    IN  SubSeq(all, IF Len(all) < MaxRecent THEN 1 ELSE Len(all) - MaxRecent + 1,
               Len(all))

\* [newPdf, ...prev.filter(p => p.name !== file.name)].slice(0, 5)
RecordSuccess(prev, name, t) ==
    LET kept == SelectSeq(prev, LAMBDA p : p.name # name)
        all == <<[id |-> t, name |-> name]>> \o kept
    IN  SubSeq(all, 1, IF Len(all) < MaxRecent THEN Len(all) ELSE MaxRecent)

----------------------------------------------------------------------------

\* ev names the last call of handleFileChange, of handleQuery, of one of
\* their continuations, of the remove button or of a recent-list button, with
\* its input; any other event resets it. The call of a handler that goes on to
\* its fetch keeps in "before" what the handler found
NoSnapshot == [taken |-> FALSE, pdfFile |-> Null, response |-> EmptyStr,
               metrics |-> NoMetrics, timers |-> {}]
Snapshot == [taken |-> TRUE, pdfFile |-> pdfFile, response |-> response,
             metrics |-> metrics, timers |-> Pending]
Event(op, file, resp) == [op |-> op, file |-> file, resp |-> resp, before |-> NoSnapshot]
NoResp == [net |-> FALSE, ok |-> FALSE, json |-> FALSE, message |-> EmptyStr,
           error |-> EmptyStr]
NoEvent == Event("none", Null, NoResp)
Started(op, file) == [Event(op, file, NoResp) EXCEPT !.before = Snapshot]

Init ==
    /\ query = EmptyStr
    /\ response = EmptyStr
    /\ loading = FALSE
    /\ metrics = NoMetrics
    /\ pdfFile = Null
    /\ recentPdfs \in InitRecents
    /\ message = NoMessage
    /\ uploads = [f \in PdfFiles |-> 0]
    /\ asks = 0
    /\ timers = NoTimers
    /\ effectTimer = NoTimer
    /\ sinceMessage = 0
    /\ now = 0
    /\ nFetch = 0
    /\ ev = NoEvent

----------------------------------------------------------------------------
(* handleFileChange, up to its await *)

\* the check that looks at the name of the file only
IsPdfByName(file) == file # Null /\ file.name # ""

IsPdf(file) == file # Null /\ file.type = PdfType

HandleFileChange(file) ==
    /\ IF IsPdf(file)
       THEN /\ nFetch < MaxFetch
            /\ pdfFile' = file
            /\ Notify(UploadingMsg(file.name))
            /\ loading' = TRUE
            /\ uploads' = [uploads EXCEPT ![file] = @ + 1]
            /\ nFetch' = nFetch + 1
            /\ ev' = Started("uploadAccepted", file)
       ELSE /\ Notify(InvalidFileMsg)
            /\ ev' = Event("uploadRejected", file, NoResp)
            /\ UNCHANGED <<pdfFile, loading, uploads, nFetch>>
    /\ UNCHANGED <<query, response, metrics, recentPdfs, asks, now>>

\* the continuation of handleFileChange with setLoading(false) at the end of
\* the try block instead of a finally block
UploadDoneNoFinally(file, resp) ==
    /\ uploads[file] > 0
    /\ uploads' = [uploads EXCEPT ![file] = @ - 1]
    /\ IF ~resp.net \/ ~resp.json
       THEN /\ Notify(NetworkErrorMsg(resp.error))
            /\ pdfFile' = Null
            /\ UNCHANGED <<recentPdfs, loading>>
       ELSE IF resp.ok
       THEN /\ Notify(UploadOkMsg(resp.message))
            /\ recentPdfs' = RecordSuccess(recentPdfs, file.name, now)
            /\ loading' = FALSE
            /\ UNCHANGED pdfFile
       ELSE /\ Notify(UploadFailMsg(resp.message))
            /\ pdfFile' = Null
            /\ loading' = FALSE
            /\ UNCHANGED recentPdfs
    /\ ev' = Event("uploadDone", file, resp)
    /\ UNCHANGED <<query, response, metrics, asks, now, nFetch>>

(* handleFileChange, from the answer of the backend to its end *)
UploadDone(file, resp) ==
    /\ uploads[file] > 0
    /\ uploads' = [uploads EXCEPT ![file] = @ - 1]
    /\ IF ~resp.net \/ ~resp.json
       THEN \* fetch or response.json() threw: the catch branch
            /\ Notify(NetworkErrorMsg(resp.error))
            /\ pdfFile' = Null
            /\ UNCHANGED recentPdfs
       ELSE IF resp.ok
       THEN /\ Notify(UploadOkMsg(resp.message))
            /\ recentPdfs' = RecordSuccess(recentPdfs, file.name, now)
            /\ UNCHANGED pdfFile
       ELSE /\ Notify(UploadFailMsg(resp.message))
            /\ pdfFile' = Null
            /\ UNCHANGED recentPdfs
    /\ loading' = FALSE           \* finally
    /\ ev' = Event("uploadDone", file, resp)
    /\ UNCHANGED <<query, response, metrics, asks, now, nFetch>>

----------------------------------------------------------------------------
(* handleQuery, up to its await *)

\* handleQuery without its check of pdfFile
HandleQueryNoDocumentCheck ==
    /\ IF Trim(query) = EmptyStr
       THEN /\ Notify(EmptyQueryMsg)
            /\ ev' = Event("queryEmpty", Null, NoResp)
            /\ UNCHANGED <<loading, response, metrics, asks, nFetch>>
       ELSE /\ nFetch < MaxFetch
            /\ loading' = TRUE
            /\ response' = EmptyStr
            /\ metrics' = NoMetrics
            /\ Notify(NoMessage)
            /\ asks' = asks + 1
            /\ nFetch' = nFetch + 1
            /\ ev' = Started("queryAccepted", pdfFile)
    /\ UNCHANGED <<query, pdfFile, recentPdfs, uploads, now>>

HandleQuery ==
    /\ IF Trim(query) = EmptyStr
       THEN /\ Notify(EmptyQueryMsg)
            /\ ev' = Event("queryEmpty", Null, NoResp)
            /\ UNCHANGED <<loading, response, metrics, asks, nFetch>>
       ELSE IF pdfFile = Null
       THEN /\ Notify(NoDocumentMsg)
            /\ ev' = Event("queryNoDocument", Null, NoResp)
            /\ UNCHANGED <<loading, response, metrics, asks, nFetch>>
       ELSE /\ nFetch < MaxFetch
            /\ loading' = TRUE
            /\ response' = EmptyStr
            /\ metrics' = NoMetrics
            /\ Notify(NoMessage)
            /\ asks' = asks + 1
            /\ nFetch' = nFetch + 1
            /\ ev' = Started("queryAccepted", pdfFile)
    /\ UNCHANGED <<query, pdfFile, recentPdfs, uploads, now>>

\* the Get Answer button: disabled={loading || !pdfFile}
QueryEnabled == ~(loading \/ pdfFile = Null)

ClickGetAnswer == QueryEnabled /\ HandleQuery

\* the textarea: disabled={loading || !pdfFile}, onChange sets the text
SetQuery(text) ==
    /\ QueryEnabled
    /\ text # query
    /\ query' = text
    /\ ev' = NoEvent
    /\ UNCHANGED <<response, loading, metrics, pdfFile, recentPdfs, message, uploads, asks,
                   timers, effectTimer, sinceMessage, now, nFetch>>

\* the continuation of handleQuery that forgets setMetrics
AskDoneNoMetrics(resp) ==
    /\ asks > 0
    /\ asks' = asks - 1
    /\ IF ~resp.net \/ ~resp.json
       THEN /\ Notify(NetworkErrorMsg(resp.error))
            /\ UNCHANGED <<response, metrics>>
       ELSE IF resp.ok
       THEN /\ response' = resp.response
            /\ UNCHANGED metrics
            /\ Notify(AskOkMsg)
       ELSE /\ Notify(AskFailMsg(resp.message))
            /\ UNCHANGED <<response, metrics>>
    /\ loading' = FALSE
    /\ ev' = Event("queryDone", Null, resp)
    /\ UNCHANGED <<query, pdfFile, recentPdfs, uploads, now, nFetch>>

\* the continuation of handleQuery that writes the answer it did not get
AskDoneWritesOnFailure(resp) ==
    /\ asks > 0
    /\ asks' = asks - 1
    /\ IF ~resp.net \/ ~resp.json
       THEN /\ Notify(NetworkErrorMsg(resp.error))
            /\ UNCHANGED <<response, metrics>>
       ELSE IF resp.ok
       THEN /\ response' = resp.response
            /\ metrics' = resp.metrics
            /\ Notify(AskOkMsg)
       ELSE /\ Notify(AskFailMsg(resp.message))
            /\ response' = resp.response
            /\ UNCHANGED metrics
    /\ loading' = FALSE
    /\ ev' = Event("queryDone", Null, resp)
    /\ UNCHANGED <<query, pdfFile, recentPdfs, uploads, now, nFetch>>

(* handleQuery, from the answer of the backend to its end *)
AskDone(resp) ==
    /\ asks > 0
    /\ asks' = asks - 1
    /\ IF ~resp.net \/ ~resp.json
       THEN /\ Notify(NetworkErrorMsg(resp.error))
            /\ UNCHANGED <<response, metrics>>
       ELSE IF resp.ok
       THEN /\ response' = resp.response
            /\ metrics' = resp.metrics
            /\ Notify(AskOkMsg)
       ELSE /\ Notify(AskFailMsg(resp.message))
            /\ UNCHANGED <<response, metrics>>
    /\ loading' = FALSE           \* finally
    /\ ev' = Event("queryDone", Null, resp)
    /\ UNCHANGED <<query, pdfFile, recentPdfs, uploads, now,
                   nFetch>>

----------------------------------------------------------------------------
(* The other controls *)

\* the Copy Response button is rendered while response is truthy;
\* execCommand either returns or throws
CopyToClipboard(copied) ==
    /\ Truthy(response)
    /\ Notify(IF copied THEN CopiedMsg ELSE CopyFailedMsg)
    /\ ev' = NoEvent
    /\ UNCHANGED <<query, response, loading, metrics, pdfFile, recentPdfs, uploads, asks, now, nFetch>>

\* a remove button that also drops the document from the recent list
RemovePdfForgets ==
    /\ pdfFile # Null
    /\ pdfFile' = Null
    /\ recentPdfs' = SelectSeq(recentPdfs, LAMBDA p : p.name # pdfFile.name)
    /\ ev' = Event("remove", Null, NoResp)
    /\ UNCHANGED <<query, response, loading, metrics, message, uploads, asks,
                   timers, effectTimer, sinceMessage, now, nFetch>>

\* a remove button that also gives up the requests in flight
RemovePdfCancels ==
    /\ pdfFile # Null
    /\ pdfFile' = Null
    /\ uploads' = [f \in PdfFiles |-> 0]
    /\ asks' = 0
    /\ loading' = FALSE
    /\ ev' = Event("remove", Null, NoResp)
    /\ UNCHANGED <<query, response, metrics, recentPdfs, message,
                   timers, effectTimer, sinceMessage, now, nFetch>>

\* the Remove PDF button is rendered while pdfFile is set
RemovePdf ==
    /\ pdfFile # Null
    /\ pdfFile' = Null
    /\ ev' = Event("remove", Null, NoResp)
    /\ UNCHANGED <<query, response, loading, metrics, recentPdfs, message, uploads, asks,
                   timers, effectTimer, sinceMessage, now, nFetch>>

\* a selection that also moves the entry to the front of the list
SelectRecentPromotes(i) ==
    /\ i \in 1..Len(recentPdfs)
    /\ pdfFile' = [name |-> recentPdfs[i].name, type |-> PdfType]
    /\ Notify(LoadedMsg(recentPdfs[i].name))
    /\ ev' = Event("select", recentPdfs[i], NoResp)
    /\ recentPdfs' = <<recentPdfs[i]>> \o
                      SelectSeq(recentPdfs, LAMBDA p : p.name # recentPdfs[i].name)
    /\ UNCHANGED <<query, response, loading, metrics, uploads, asks, now, nFetch>>

\* one button per entry of the recent list
SelectRecent(i) ==
    /\ i \in 1..Len(recentPdfs)
    /\ pdfFile' = [name |-> recentPdfs[i].name, type |-> PdfType]
    /\ Notify(LoadedMsg(recentPdfs[i].name))
    /\ ev' = Event("select", recentPdfs[i], NoResp)
    /\ UNCHANGED <<query, response, loading, metrics, recentPdfs, uploads, asks, now, nFetch>>

\* a timeout that fires before its delay has passed
TimerFiresEarly(t) ==
    /\ t \in Pending
    /\ message' = NoMessage
    /\ sinceMessage' = 0
    /\ timers' = ClearTimeout(ClearTimeout(timers, t), effectTimer)
    /\ effectTimer' = NoTimer
    /\ ev' = NoEvent
    /\ UNCHANGED <<query, response, loading, metrics, pdfFile, recentPdfs, uploads, asks, now, nFetch>>

\* a pending timeout of the message effect fires, its delay having passed:
\* the callback sets the empty message and the effect runs again
TimerFires(t) ==
    /\ t \in Pending
    /\ timers[t] >= ClearDelay
    /\ message' = NoMessage
    /\ sinceMessage' = 0
    /\ timers' = ClearTimeout(ClearTimeout(timers, t), effectTimer)
    /\ effectTimer' = NoTimer
    /\ ev' = NoEvent
    /\ UNCHANGED <<query, response, loading, metrics, pdfFile, recentPdfs, uploads, asks, now, nFetch>>

\* the clock advances; Date.now() is read only by the continuation of an
\* upload, so only the readings taken while one is in flight are followed
Tick ==
    /\ now < MaxClock
    /\ \E f \in PdfFiles : uploads[f] > 0
    /\ now' = now + 1
    /\ ev' = NoEvent
    /\ UNCHANGED <<query, response, loading, metrics, pdfFile, recentPdfs,
                   message, uploads, asks, timers, effectTimer, sinceMessage,
                   nFetch>>

\* the delay of the timeout passes: the pending calls and the message shown
\* grow older, up to the delay
Older(ms) == IF ms + ClearDelay > ClearDelay THEN ClearDelay ELSE ms + ClearDelay

Elapse ==
    /\ \/ \E t \in Pending : timers[t] < ClearDelay
       \/ Truthy(message.text) /\ sinceMessage < ClearDelay
    /\ timers' = [t \in Pending |-> Older(timers[t])]
    /\ sinceMessage' = IF Truthy(message.text) THEN Older(sinceMessage) ELSE sinceMessage
    /\ ev' = NoEvent
    /\ UNCHANGED <<query, response, loading, metrics, pdfFile, recentPdfs,
                   message, uploads, asks, effectTimer, now, nFetch>>

----------------------------------------------------------------------------

Next ==
    \/ \E file \in FileInputs : HandleFileChange(file)
    \/ \E file \in PdfFiles, resp \in UploadResponses : UploadDone(file, resp)
    \/ ClickGetAnswer
    \/ \E text \in QueryTexts : SetQuery(text)
    \/ \E resp \in AskResponses : AskDone(resp)
    \/ \E copied \in BOOLEAN : CopyToClipboard(copied)
    \/ RemovePdf
    \/ \E i \in SelectChoices : SelectRecent(i)
    \/ \E t \in Pending : TimerFires(t)
    \/ Tick
    \/ Elapse

Spec == Init /\ [][Next]_vars

\* handleQuery called as a function, whatever the disabled attribute of the
\* button says
CallHandleQuery == HandleQuery

NextCall == Next \/ CallHandleQuery

SpecCall == Init /\ [][NextCall]_vars

\* The runtime runs a timeout whose delay has passed, time passes, and every
\* request made is answered or fails
Fairness ==
    /\ WF_vars(Elapse)
    /\ WF_vars(\E t \in Pending : TimerFires(t))
    /\ WF_vars(\E file \in PdfFiles, resp \in UploadResponses : UploadDone(file, resp))
    /\ WF_vars(\E resp \in AskResponses : AskDone(resp))

SpecLive == Init /\ [][Next]_vars /\ Fairness

----------------------------------------------------------------------------
(* Vocabulary of the properties *)

UploadCompleted == ev.op = "uploadDone"
QueryCalls == {"queryEmpty", "queryNoDocument", "queryAccepted"}

\* a 2xx answer with a JSON body
HttpSuccess(r) == r.net /\ r.json /\ r.ok

IsBlank(s) == \A i \in 1..Len(s) : s[i] = Space

NamesOf(c) == [i \in 1..Len(c) |-> c[i].name]

RECURSIVE SumOver(_, _)
SumOver(f, S) ==
    IF S = {} THEN 0
    ELSE LET x == CHOOSE y \in S : TRUE IN f[x] + SumOver(f, S \ {x})

UploadsInFlight == SumOver(uploads, PdfFiles)

Outstanding == UploadsInFlight + asks

\* the k-th entry of c, counting only the entries not named n
NthOther(c, n, k) ==
    c[CHOOSE i \in 1..Len(c) :
        /\ c[i].name # n
        /\ Cardinality({j \in 1..i : c[j].name # n}) = k]

Others(c, n) == Cardinality({j \in 1..Len(c) : c[j].name # n})

----------------------------------------------------------------------------
\* C1: in every reachable state the recent list holds at most 5 entries and
\* no two of its entries have the same name.
C1_RecentBoundedUnique ==
    /\ Len(recentPdfs) <= 5
    /\ \A i, j \in 1..Len(recentPdfs) :
          i # j => recentPdfs[i].name # recentPdfs[j].name

\* a sixth name has just been recorded in a full list while another upload
\* is still in flight
C1_Witness ==
    /\ UploadCompleted /\ HttpSuccess(ev.resp)
    /\ ev.file.name = "f.pdf"
    /\ Len(recentPdfs) = 5
    /\ recentPdfs[5].name = "b.pdf"
    /\ \E f \in PdfFiles : uploads[f] > 0

\* C2: a successful upload of n against the list c leaves n in front,
\* followed by the entries of c not named n in their order, cut to 5; a name
\* already present moves to the front without growth, and an overflow drops
\* the tail.
C2_RecordSuccess ==
    [][(ev'.op = "uploadDone" /\ HttpSuccess(ev'.resp)) =>
        LET n == ev'.file.name
            c == recentPdfs
            d == recentPdfs'
            m == Others(c, n)
        IN  /\ Len(d) = (IF m + 1 < 5 THEN m + 1 ELSE 5)
            /\ d[1].name = n
            /\ \A k \in 2..Len(d) : d[k] = NthOther(c, n, k - 1)
            /\ (\E i \in 1..Len(c) : c[i].name = n) => Len(d) = Len(c)
            /\ (m = 5) => (\A k \in 2..5 : d[k] = c[k - 1])
    ]_vars

\* c.pdf, third in a full list, has been uploaded again: it is in front and
\* the former tail is still the tail
C2_Witness ==
    /\ UploadCompleted /\ HttpSuccess(ev.resp)
    /\ ev.file.name = "c.pdf"
    /\ NamesOf(recentPdfs) = <<"c.pdf", "e.pdf", "d.pdf", "b.pdf", "a.pdf">>

\* C3: handleQuery with an empty or blank text sets the "enter a question"
\* error, issues no request and leaves loading, response and metrics alone.
C3_EmptyQuery ==
    [][(ev'.op \in QueryCalls /\ IsBlank(query)) =>
        /\ message' = EmptyQueryMsg
        /\ message'.type = "error"
        /\ nFetch' = nFetch /\ asks' = asks /\ uploads' = uploads
        /\ loading' = loading /\ response' = response /\ metrics' = metrics
    ]_vars

\* the button was clicked with a text of blanks only
C3_Witness ==
    /\ ev.op = "queryEmpty"
    /\ query = <<Space>>
    /\ message = EmptyQueryMsg


\* C4 (as amended): handleQuery called without an active document issues no
\* request for any text; it sets the "upload a PDF first" error when the
\* trimmed text is not empty and the "enter a question" error when it is.
C4_NoDocument ==
    [][(ev'.op \in QueryCalls /\ pdfFile = Null) =>
        /\ nFetch' = nFetch /\ asks' = asks /\ uploads' = uploads
        /\ message' = (IF IsBlank(query) THEN EmptyQueryMsg ELSE NoDocumentMsg)
        /\ message'.type = "error"
    ]_vars

\* handleQuery has run with a question typed and no document
C4_Witness ==
    /\ ev.op = "queryNoDocument"
    /\ pdfFile = Null
    /\ ~IsBlank(query)
    /\ message = NoDocumentMsg

\* C4 (as claimed): handleQuery called without an active document sets the
\* "upload a PDF first" error and issues no request, for every text.
C4_Claimed ==
    [][(ev'.op \in QueryCalls /\ pdfFile = Null) =>
        /\ nFetch' = nFetch /\ asks' = asks
        /\ message' = NoDocumentMsg
    ]_vars

\* C5 (as claimed): right after a call of handleFileChange or handleQuery has
\* come to its end, on whatever branch, loading is false.
CallEnded ==
    ev.op \in {"uploadDone", "queryDone", "uploadRejected", "queryEmpty",
               "queryNoDocument"}

C5_Claimed == CallEnded => ~loading

\* C6 (as claimed): while an upload or a query request is in flight,
\* loading is true.
C6_Claimed == Outstanding > 0 => loading

\* C7 (as claimed): at most one upload request and at most one query request
\* are in flight.
C7_Claimed == UploadsInFlight <= 1 /\ asks <= 1

\* C8 (as claimed): when an upload of f ends with a 2xx answer carrying the
\* message m, the active document is f, f is in front of the recent list and
\* the notification is (m, success).
C8_Claimed ==
    [][(ev'.op = "uploadDone" /\ HttpSuccess(ev'.resp)) =>
        /\ pdfFile' = ev'.file
        /\ recentPdfs'[1].name = ev'.file.name
        /\ message' = [text |-> ev'.resp.message, type |-> "success"]
    ]_vars

\* C9: when an upload ends with another status, an unreadable body or a
\* failed fetch, no document is active, the notification is an error that
\* carries the message of the server if there is one and another text if
\* not, and the recent list is as it was.
HasServerMessage(r) == r.net /\ r.json /\ Truthy(r.message)

Contains(text, part) ==
    \E i \in 1..Len(text) :
        i + Len(part) - 1 <= Len(text) /\ SubSeq(text, i, i + Len(part) - 1) = part

C9_UploadFailure ==
    [][(ev'.op = "uploadDone" /\ ~HttpSuccess(ev'.resp)) =>
        /\ pdfFile' = Null
        /\ message'.type = "error"
        /\ Truthy(message'.text)
        /\ HasServerMessage(ev'.resp) => Contains(message'.text, ev'.resp.message)
        /\ recentPdfs' = recentPdfs
    ]_vars

\* an upload against the full recent list has been refused by the server
\* with a message
C9_Witness ==
    /\ UploadCompleted
    /\ ~ev.resp.ok /\ HasServerMessage(ev.resp)
    /\ pdfFile = Null
    /\ message = [text |-> <<"Error: ", "indexed">>, type |-> "error"]
    /\ recentPdfs = FullRecent

\* C10: a button of the recent list makes its entry the active document,
\* as a PDF, issues no request and leaves the recent list as it was.
C10_SelectEntry ==
    [][ev'.op = "select" =>
        /\ \E i \in 1..Len(recentPdfs) : ev'.file = recentPdfs[i]
        /\ pdfFile' = [name |-> ev'.file.name, type |-> "application/pdf"]
        /\ nFetch' = nFetch /\ asks' = asks /\ uploads' = uploads
        /\ recentPdfs' = recentPdfs
    ]_vars

\* after an upload recorded during the run, an older entry has been selected
C10_Witness ==
    /\ ev.op = "select"
    /\ Len(recentPdfs) > 1
    /\ recentPdfs[1].id >= 0
    /\ pdfFile.name # recentPdfs[1].name
    /\ \E i \in 2..Len(recentPdfs) : pdfFile.name = recentPdfs[i].name

----------------------------------------------------------------------------
(* C11 *)

\* C11: at most one dismissal timer is pending at any instant, and a pending
\* timer is the one the effect started for the notification now shown (it is
\* the handle the cleanup holds and it is as old as the notification), so no
\* timer started for an earlier notification is left to clear a later one.
C11_OneTimer ==
    /\ Cardinality(Pending) <= 1
    /\ \A t \in Pending : t = effectTimer /\ timers[t] = sinceMessage

\* an upload was accepted while the timer of an earlier notification was
\* pending, and one timer is pending for its "Uploading" notification
C11_Witness ==
    /\ ev.op = "uploadAccepted"
    /\ ev.before.timers # {}
    /\ message = UploadingMsg(ev.file.name)
    /\ Cardinality(Pending) = 1

----------------------------------------------------------------------------
(* C12 *)

\* C12: every non-empty notification is eventually cleared. The timeout
\* clears the notification only when 5000 ms have passed since the notification
\* shown was created (a newer notification restarts the count), and a
\* notification that is 5000 ms old is then cleared by its timeout, unless a
\* newer one replaces it first.
C12_EventuallyCleared ==
    /\ [][(Truthy(message.text) /\ ev'.op = "none" /\ message' = NoMessage)
            => sinceMessage >= ClearDelay]_vars
    /\ (Truthy(message.text) /\ sinceMessage >= ClearDelay)
         ~> (~Truthy(message.text) \/ sinceMessage < ClearDelay)

\* the "Uploading" notification of the only request made was cleared by its
\* timeout while the request is still pending
C12_Witness ==
    /\ nFetch = 1
    /\ UploadsInFlight = 1
    /\ message = NoMessage
    /\ Pending = {}

----------------------------------------------------------------------------
(* C13 *)

\* C13: when a query that was accepted completes with an HTTP success whose
\* body carries response r and metrics k, the state that results has the
\* answer r and the metrics k, both written by that step, and a notification
\* of success severity.
C13_QuerySuccess ==
    [][(ev'.op = "queryDone" /\ HttpSuccess(ev'.resp))
         => /\ response' = ev'.resp.response
            /\ metrics' = ev'.resp.metrics
            /\ message'.type = "success"]_vars

\* a query has completed with success and its answer and metrics are shown
C13_Witness ==
    /\ ev.op = "queryDone"
    /\ HttpSuccess(ev.resp)
    /\ response = Answer
    /\ metrics = SomeMetrics
    /\ message = AskOkMsg

----------------------------------------------------------------------------
(* C14 *)

\* C14: when a query that was accepted completes with an HTTP failure or a
\* network failure, the state that results has an empty Query Result (the
\* answer empty and the metrics absent) and a notification of error severity.
C14_Claimed ==
    [][(ev'.op = "queryDone" /\ ~HttpSuccess(ev'.resp))
         => /\ response' = EmptyStr
            /\ metrics' = NoMetrics
            /\ message'.type = "error"]_vars

----------------------------------------------------------------------------
(* C15 *)

\* C15: upload(file) with no file, or with a file whose MIME type is not
\* exactly 'application/pdf', fails at once with InvalidFileType: the
\* notification is the "valid PDF file" error and no upload request is made
\* (no request is counted, none is pending that was not, the Busy Flag and the
\* Document Reference are as they were).
C15_InvalidFile ==
    [][(ev'.op \in {"uploadAccepted", "uploadRejected"}
          /\ (ev'.file = Null \/ ev'.file.type # "application/pdf"))
         => /\ ev'.op = "uploadRejected"
            /\ message' = InvalidFileMsg
            /\ message'.type = "error"
            /\ nFetch' = nFetch
            /\ uploads' = uploads
            /\ loading' = loading
            /\ pdfFile' = pdfFile]_vars

\* a file that is not a PDF was refused before any request was made
C15_Witness ==
    /\ ev.op = "uploadRejected"
    /\ ev.file \in OtherFiles
    /\ message = InvalidFileMsg
    /\ nFetch = 0

----------------------------------------------------------------------------
(* C16 *)

\* C16: the Document Reference takes a non-empty value only in the step of
\* an upload that completes with success or in the step of selectEntry;
\* accepting an upload does not set it, so the active document is never put
\* there by an upload that is still outstanding or that failed.
C16_Claimed ==
    [][(pdfFile' # pdfFile /\ pdfFile' # Null)
         => \/ ev'.op = "select"
            \/ ev'.op = "uploadDone" /\ HttpSuccess(ev'.resp)]_vars

----------------------------------------------------------------------------
(* C17 *)

\* C17: under the interleavings the interface permits, a query request is
\* never issued while an upload request is outstanding, and never against a
\* Document Reference set by an upload that has not completed with success.
C17_Claimed ==
    [][ev'.op = "queryAccepted" => UploadsInFlight = 0]_vars

----------------------------------------------------------------------------
(* C18 *)

\* C18: if every request issued eventually completes, then whenever the Busy
\* Flag is true it eventually becomes false; and while no request is
\* outstanding the Busy Flag is false, it being raised only by the acceptance
\* of an upload or of a query.
C18_Release ==
    /\ loading ~> ~loading
    /\ [](Outstanding = 0 => ~loading)
    /\ [][(~loading /\ loading')
            => ev'.op \in {"uploadAccepted", "queryAccepted"}]_vars

\* the only request made has failed and the Busy Flag is released
C18_Witness ==
    /\ ev.op = "uploadDone"
    /\ ~HttpSuccess(ev.resp)
    /\ nFetch = 1
    /\ Outstanding = 0
    /\ ~loading

----------------------------------------------------------------------------
(* C19 *)

\* C19: the Recent-Documents Cache is changed only by the completion of an
\* upload with success: remove, selectEntry, rejected and failed uploads, the
\* acceptance of an upload, every outcome of a query, the clipboard export and
\* the expiry of a notification leave it as it was.
C19_CacheFrame ==
    [][recentPdfs' # recentPdfs
         => ev'.op = "uploadDone" /\ HttpSuccess(ev'.resp)]_vars

\* after an upload completed with success a document was removed: the cache
\* still starts with the entry of the upload
C19_Witness ==
    /\ ev.op = "remove"
    /\ pdfFile = Null
    /\ recentPdfs # <<>>
    /\ recentPdfs[1].id >= 0

----------------------------------------------------------------------------
(* C20 *)

----------------------------------------------------------------------------
(* C21 *)

\* C21 as claimed: every entry placed in the Recent-Document Cache gets a
\* fresh unique id, so in every reachable state no two entries of the cache
\* share an id, also when two overlapping uploads of files with different
\* names complete at the same clock reading.
C21_Claimed ==
    \A i, j \in 1..Len(recentPdfs) :
        i # j => recentPdfs[i].id # recentPdfs[j].id

----------------------------------------------------------------------------
(* C22 *)

\* C22: a dismissal timer is pending exactly when the live notification has
\* a non-empty text. The steps that clear the notification (the acceptance of
\* a query, the firing of the timer) leave no timer pending, and a
\* notification created with an empty or a missing text (an upload answered
\* with success by a body without message) schedules none.
C22_TimerIffText ==
    /\ [](Pending # {} <=> (message.text # EmptyStr /\ message.text # Undef))
    /\ [][(message' = NoMessage /\ (ev'.op = "queryAccepted" \/ message # NoMessage))
            => Pending' = {}]_vars
    /\ [][(ev'.op = "uploadDone" /\ HttpSuccess(ev'.resp) /\ ev'.resp.message = Undef)
            => message'.type = "success" /\ Pending' = {}]_vars

\* the only request made, an upload, was answered with success by a body
\* without message: the notification has no text and no timer is pending
C22_Witness ==
    /\ ev.op = "uploadDone"
    /\ HttpSuccess(ev.resp)
    /\ ev.resp.message = Undef
    /\ message = UploadOkMsg(Undef)
    /\ Pending = {}
    /\ nFetch = 1

----------------------------------------------------------------------------
(* C23 *)

\* C23: the remove action changes the Document Reference only, which it
\* empties: the Busy Flag, the Query Result, the Notification (and its timer),
\* the Recent-Document Cache and the requests outstanding are as they were. A
\* request in flight at the removal can therefore still complete, and when it
\* completes right after the removal it writes what its branch writes: the
\* answer and the metrics of a query, the cache entry and the notification of
\* an upload.
C23_RemoveFrame ==
    /\ [][ev'.op = "remove"
            => /\ pdfFile' = Null
               /\ loading' = loading
               /\ response' = response
               /\ metrics' = metrics
               /\ message' = message
               /\ timers' = timers
               /\ recentPdfs' = recentPdfs
               /\ uploads' = uploads
               /\ asks' = asks]_vars
    /\ []((ev.op = "remove" /\ asks > 0)
            => ENABLED (\E resp \in AskResponses : AskDone(resp)))
    /\ []((ev.op = "remove" /\ UploadsInFlight > 0)
            => ENABLED (\E file \in PdfFiles, resp \in UploadResponses : UploadDone(file, resp)))
    /\ [][(ev.op = "remove" /\ ev'.op = "queryDone" /\ HttpSuccess(ev'.resp))
            => /\ response' = ev'.resp.response
               /\ metrics' = ev'.resp.metrics]_vars
    /\ [][(ev.op = "remove" /\ ev'.op = "uploadDone" /\ HttpSuccess(ev'.resp))
            => /\ recentPdfs'[1].name = ev'.file.name
               /\ message' = UploadOkMsg(ev'.resp.message)]_vars

\* the document was removed while the only request made, a query, was in
\* flight, and the query then completed and its answer is shown
C23_Witness ==
    /\ ev.op = "queryDone"
    /\ HttpSuccess(ev.resp)
    /\ nFetch = 1
    /\ pdfFile = Null
    /\ response = Answer
    /\ metrics = SomeMetrics

====
